---- MODULE Spec2Model ----
(***************************************************************************)
(* Tako-Jump: stage generation (src/src/game/stage.ts), keyboard input     *)
(* (src/src/hooks/useKeyboardInput.ts), touch input                        *)
(* (src/src/components/MobileControls.tsx) and the actor's state machine.  *)
(*                                                                         *)
(* Numbers.  The program computes with IEEE doubles.  The model keeps      *)
(* every quantity exact:                                                   *)
(*   - a random draw r in [0,1) is a grid point k/RandDen, held as k;      *)
(*   - a length that depends on a draw (y, gaps, xRaw, eel positions) is   *)
(*     held in fixed point, as the integer  pixels * RandDen  ("FP");      *)
(*   - x, width, blockCount are whole pixels / counts, as in the program   *)
(*     (x is a multiple of BLOCK_SIZE, width = blockCount * BLOCK_SIZE);   *)
(*   - a type ratio is a multiple of 1/RatioDen, held as its numerator.    *)
(* The 32-bit state of the seeded generator is a pair of 16-bit halves,    *)
(* so that no intermediate value leaves TLC's integer range.               *)
(***************************************************************************)
EXTENDS Integers, Sequences, FiniteSets, TLC

\* ------------------------------------------------------------------ bounds
\* Resolution of a random draw: r ranges over {0, 1/RandDen, ..., (RandDen-1)/RandDen}.
RandDen == 4
\* Stage numbers passed to setRandomSeed range over 1..MaxStage.
MaxStage == 2

\* ------------------------------------------------- CONFIG (game/config.ts)
CANVAS_WIDTH == 400
CANVAS_HEIGHT == 600
BLOCK_SIZE == 20
EEL_SIZE == 30
MOON_SIZE == 60
BASE_SCORE == 100
TIME_BONUS_MULTIPLIER == 10

\* Type ratios are multiples of 1/RatioDen (0.1 steps).
RatioDen == 10

\* A pixel length in fixed point.
FP(v) == v * RandDen

Max(a, b) == IF a >= b THEN a ELSE b
Min(a, b) == IF a <= b THEN a ELSE b
Abs(a) == IF a >= 0 THEN a ELSE -a

\* ------------------------------------------------ 32-bit word arithmetic
RECURSIVE BitXor(_, _, _)
BitXor(a, b, n) ==
  IF n = 0 THEN 0
  ELSE (((a % 2) + (b % 2)) % 2) + 2 * BitXor(a \div 2, b \div 2, n - 1)

RECURSIVE BitOr(_, _, _)
BitOr(a, b, n) ==
  IF n = 0 THEN 0
  ELSE (IF (a % 2) = 1 \/ (b % 2) = 1 THEN 1 ELSE 0) + 2 * BitOr(a \div 2, b \div 2, n - 1)

RECURSIVE Pow2(_)
Pow2(k) == IF k = 0 THEN 1 ELSE 2 * Pow2(k - 1)

Half == Pow2(16)

Word(hi, lo) == [hi |-> hi, lo |-> lo]

\* (a + b) | 0
WAdd(a, b) ==
  LET lo == a.lo + b.lo
  IN  Word((a.hi + b.hi + (lo \div Half)) % Half, lo % Half)

\* a ^ b
WXor(a, b) == Word(BitXor(a.hi, b.hi, 16), BitXor(a.lo, b.lo, 16))

\* a >>> k, 0 < k < 16
WShr(a, k) ==
  Word(a.hi \div Pow2(k), (a.lo \div Pow2(k)) + (a.hi % Pow2(k)) * Pow2(16 - k))

\* c | a for a constant c < 2^16
WOrLow(c, a) == Word(a.hi, BitOr(a.lo, c, 16))

\* The 32-bit product of two 16-bit numbers, as a word.
Mul16(x, y) ==
  LET p0 == (x % 256) * y
      p1 == (x \div 256) * y
      s  == p0 + (p1 % 256) * 256
  IN  Word(((s \div Half) + (p1 \div 256)) % Half, s % Half)

\* Math.imul(a, b): the low 32 bits of the product.
Imul(a, b) ==
  LET p == Mul16(a.lo, b.lo)
  IN  Word((p.hi + Mul16(a.hi, b.lo).lo + Mul16(a.lo, b.hi).lo) % Half, p.lo)

\* ------------------------------------------------------------ the generator
\* 0x6D2B79F5
Increment == Word(27947, 31221)

\* One call of the closure createSeededRandom returns: the new state.
MulberryState(state) == WAdd(state, Increment)

\* ... and the 32-bit output (t ^ (t >>> 14)) >>> 0 computed from the new state.
MulberryOut(state) ==
  LET t1 == Imul(WXor(state, WShr(state, 15)), WOrLow(1, state))
      t2 == WXor(WAdd(t1, Imul(WXor(t1, WShr(t1, 7)), WOrLow(61, t1))), t1)
  IN  WXor(t2, WShr(t2, 14))

\* u / 4294967296 on the draw grid: floor(u * RandDen / 2^32).
ToUnit(u) == ((u.hi * RandDen) + ((u.lo * RandDen) \div Half)) \div Half

\* currentRandom: Math.random until a seed is set, then a seeded closure.
NativeRandom == [kind |-> "native"]
SeededRandom(state) == [kind |-> "seeded", state |-> state]

createSeededRandom(seed) == SeededRandom(Word(seed \div Half, seed % Half))

\* Mutant: a generator that exists already is kept, not replaced.
NewGenerator_Keep(current, seed) ==
  IF current.kind = "seeded" THEN current ELSE createSeededRandom(seed)

\* currentRandom = createSeededRandom(seed)
NewGenerator(current, seed) == createSeededRandom(seed)

\* The seed setRandomSeed derives from a stage number.
SeedOf(stageNumber) == stageNumber * 12345 + 98765

\* currentRandom(): every pair (draw, generator afterwards) the call can give.
\* Math.random may return any value of [0,1); a seeded closure returns one.
Draw(rng) ==
  IF rng.kind = "native"
  THEN { [r |-> k, rng |-> rng] : k \in 0 .. RandDen - 1 }
  ELSE LET s == MulberryState(rng.state)
       IN  { [r |-> ToUnit(MulberryOut(s)), rng |-> SeededRandom(s)] }

\* Mutant: Math.round in place of Math.floor.
randomInt_Round(rng, min, max) ==
  { [val |-> ((2 * d.r * (max - min + 1) + RandDen) \div (2 * RandDen)) + min, rng |-> d.rng]
    : d \in Draw(rng) }

\* randomInt(min, max) = Math.floor(currentRandom() * (max - min + 1)) + min
randomInt(rng, min, max) ==
  { [val |-> ((d.r * (max - min + 1)) \div RandDen) + min, rng |-> d.rng] : d \in Draw(rng) }

\* Mutant: the width of the range taken as a magnitude.
randomInRange_Abs(rng, min, max) ==
  { [val |-> d.r * Abs(max - min) + FP(min), rng |-> d.rng] : d \in Draw(rng) }

\* randomInRange(min, max) = currentRandom() * (max - min) + min, in fixed point
randomInRange(rng, min, max) ==
  { [val |-> d.r * (max - min) + FP(min), rng |-> d.rng] : d \in Draw(rng) }

\* ------------------------------------------------------ generatePlatforms
\* Mutant: each ratio compared on its own, not cumulatively.
TypeFor_Separate(r, stageConfig) ==
  IF r * RatioDen < stageConfig.normalRatio * RandDen THEN "normal"
  ELSE IF r * RatioDen < stageConfig.iceRatio * RandDen THEN "ice"
  ELSE IF r * RatioDen < stageConfig.caterpillarRatio * RandDen THEN "caterpillar"
  ELSE "normal"

\* determinePlatformType: the type for a draw r (rand < ratio compares
\* r/RandDen with ratio/RatioDen; an unset ratio is 0).
TypeFor(r, stageConfig) ==
  LET rand == r * RatioDen
      normalRatio == stageConfig.normalRatio * RandDen
      iceRatio == stageConfig.iceRatio * RandDen
      caterpillarRatio == stageConfig.caterpillarRatio * RandDen
  IN  IF rand < normalRatio THEN "normal"
      ELSE IF rand < normalRatio + iceRatio THEN "ice"
      ELSE IF rand < normalRatio + iceRatio + caterpillarRatio THEN "caterpillar"
      ELSE "normal"

determinePlatformType(rng, stageConfig) ==
  { [val |-> TypeFor(d.r, stageConfig), rand |-> d.r, rng |-> d.rng] : d \in Draw(rng) }

\* Mutant: the ground at the bottom edge of the canvas.
groundY_Bottom == CANVAS_HEIGHT

groundY == CANVAS_HEIGHT - 50

\* Math.ceil(CANVAS_WIDTH / blockSize)
groundBlockCount == (CANVAS_WIDTH + BLOCK_SIZE - 1) \div BLOCK_SIZE

GroundPlatform ==
  [x |-> 0, y |-> FP(groundY), width |-> CANVAS_WIDTH, type |-> "normal",
   blockCount |-> groundBlockCount]

\* Mutant: no default for an unset gap.
firstGap_NoDefault(stageConfig) == stageConfig.firstPlatformGap

\* stageConfig.firstPlatformGap || 200
firstGap(stageConfig) ==
  IF stageConfig.firstPlatformGap = 0 THEN 200 ELSE stageConfig.firstPlatformGap

maxHorizontalJump == CANVAS_WIDTH \div 2

minXOf(lastX) == Max(10, lastX - maxHorizontalJump)
maxXOf(lastX, width) == Min(CANVAS_WIDTH - width - 10, lastX + maxHorizontalJump)

\* Mutant: Math.floor in place of Math.round.
SnapToBlock_Floor(xRaw) == (xRaw \div (BLOCK_SIZE * RandDen)) * BLOCK_SIZE

\* Math.round(xRaw / blockSize) * blockSize, xRaw in fixed point.
\* Math.round(v) is floor(v + 0.5).
SnapToBlock(xRaw) ==
  ((2 * xRaw + BLOCK_SIZE * RandDen) \div (2 * BLOCK_SIZE * RandDen)) * BLOCK_SIZE

\* The platform record of one iteration (lines 97-103).
MakePlatform(x, y, width, type, blockCount) ==
  [x |-> x, y |-> y, width |-> width, type |-> type, blockCount |-> blockCount]

MakeCaterpillar(x, y, width, blockCount, direction) ==
  [x |-> x, y |-> y, width |-> width, type |-> "caterpillar", blockCount |-> blockCount,
   caterpillarOffset |-> 0, caterpillarDirection |-> direction]

\* currentRandom() < 0.5 ? 1 : -1
DirectionFor(r) == IF 2 * r < RandDen THEN 1 ELSE -1

\* The loop state: the generator, currentY, lastX, the platforms pushed so far,
\* and (not program state) a record of each iteration's intermediate values.
LoopState(rng, currentY, lastX, platforms, log) ==
  [rng |-> rng, currentY |-> currentY, lastX |-> lastX, platforms |-> platforms, log |-> log]

\* Lines 93-106 of one iteration, once gap, blockCount and type are drawn.
PlaceSteps(s, y, bc, ty) ==
  LET width == bc.val * BLOCK_SIZE
      minX == minXOf(s.lastX)
      maxX == maxXOf(s.lastX, width)
      entry(xr) == [minX |-> minX, maxX |-> maxX, xRaw |-> xr.val]
  IN  UNION {
        LET x == SnapToBlock(xr.val)
        IN  IF ty.val = "caterpillar"
            THEN { LoopState(d.rng, y, x + width \div 2,
                     Append(s.platforms, MakeCaterpillar(x, y, width, bc.val, DirectionFor(d.r))),
                     Append(s.log, entry(xr))) : d \in Draw(xr.rng) }
            ELSE { LoopState(xr.rng, y, x + width \div 2,
                     Append(s.platforms, MakePlatform(x, y, width, ty.val, bc.val)),
                     Append(s.log, entry(xr))) }
        : xr \in randomInRange(ty.rng, minX, maxX) }

\* Mutant: currentY += gap.
PlatformSteps_Add(stageConfig, i, s) ==
  LET gaps == IF i > 0
              THEN randomInRange(s.rng, stageConfig.gapMin, stageConfig.gapMax)
              ELSE { [val |-> 0, rng |-> s.rng] }
  IN  UNION { UNION { UNION {
        PlaceSteps(s, s.currentY + gap.val, bc, ty)
        : ty \in determinePlatformType(bc.rng, stageConfig) }
        : bc \in randomInt(gap.rng, stageConfig.blockCountMin, stageConfig.blockCountMax) }
        : gap \in gaps }

\* One iteration i of the loop (lines 74-107), from loop state s.
PlatformSteps(stageConfig, i, s) ==
  LET gaps == IF i > 0
              THEN randomInRange(s.rng, stageConfig.gapMin, stageConfig.gapMax)
              ELSE { [val |-> 0, rng |-> s.rng] }
  IN  UNION { UNION { UNION {
        PlaceSteps(s, s.currentY - gap.val, bc, ty)
        : ty \in determinePlatformType(bc.rng, stageConfig) }
        : bc \in randomInt(gap.rng, stageConfig.blockCountMin, stageConfig.blockCountMax) }
        : gap \in gaps }

\* Mutant: the condition is tested after the body (do ... while).
RECURSIVE PlatformLoop_DoWhile(_, _, _)
PlatformLoop_DoWhile(stageConfig, i, s) ==
  IF i >= stageConfig.platformCount /\ i > 0 THEN { s }
  ELSE UNION { PlatformLoop_DoWhile(stageConfig, i + 1, s2)
               : s2 \in PlatformSteps(stageConfig, i, s) }

RECURSIVE PlatformLoop(_, _, _)
PlatformLoop(stageConfig, i, s) ==
  IF i >= stageConfig.platformCount THEN { s }
  ELSE UNION { PlatformLoop(stageConfig, i + 1, s2) : s2 \in PlatformSteps(stageConfig, i, s) }

\* generatePlatforms(stageConfig): every (platforms, generator afterwards) it can return.
generatePlatforms(rng, stageConfig) ==
  PlatformLoop(stageConfig, 0,
    LoopState(rng, FP(groundY - firstGap(stageConfig)), CANVAS_WIDTH \div 2,
              <<GroundPlatform>>, <<>>))

\* ----------------------------------------------------------- generateMoon
\* platforms.reduce((highest, p) => p.y < highest.y ? p : highest): the fold
\* starts from the first platform and visits the others in order.
RECURSIVE HighestFrom(_, _, _)
HighestFrom(pfs, i, highest) ==
  IF i > Len(pfs) THEN highest
  ELSE HighestFrom(pfs, i + 1, IF pfs[i].y < highest.y THEN pfs[i] ELSE highest)

highestPlatform(pfs) == HighestFrom(pfs, 2, pfs[1])

\* Mutant: the comparison never replaces the first platform.
generateMoon_First(pfs) ==
  [x |-> FP(CANVAS_WIDTH) \div 2 - FP(MOON_SIZE) \div 2,
   y |-> pfs[1].y - FP(200),
   size |-> MOON_SIZE]

\* generateMoon(platforms).  x and y are in fixed point; CANVAS_WIDTH and
\* MOON_SIZE are even, so their halves are whole.
generateMoon(pfs) ==
  [x |-> FP(CANVAS_WIDTH) \div 2 - FP(MOON_SIZE) \div 2,
   y |-> highestPlatform(pfs).y - FP(200),
   size |-> MOON_SIZE]

\* ----------------------------------------------------------- generateEels
\* The floating platform nearest to the target height of eel i (lines 144-157).
\* targetY = highestY + heightRange / (eelCount + 1) * (i + 1); distances are
\* compared multiplied by eelCount + 1, which keeps them whole.
NearestIndex(floatingPlatforms, eelCount, i) ==
  LET n == Len(floatingPlatforms)
      lowestY == floatingPlatforms[1].y
      highestY == floatingPlatforms[n].y
      heightRange == lowestY - highestY
      target == highestY * (eelCount + 1) + heightRange * (i + 1)
      distance(k) == Abs(floatingPlatforms[k].y * (eelCount + 1) - target)
  IN  CHOOSE k \in 1 .. n :
        /\ \A j \in 1 .. n : distance(k) <= distance(j)
        /\ \A j \in 1 .. k - 1 : distance(j) > distance(k)

MakeEel(x, y, rotation) ==
  [x |-> x, y |-> y, size |-> EEL_SIZE, isCollected |-> FALSE, rotation |-> rotation]

\* One iteration of the loop (lines 142-173): s = [rng, eels].
EelSteps(floatingPlatforms, eelCount, i, s) ==
  LET nearestPlatform == floatingPlatforms[NearestIndex(floatingPlatforms, eelCount, i)]
      lo == Max(20, nearestPlatform.x - 50)
      hi == Min(CANVAS_WIDTH - EEL_SIZE - 20, nearestPlatform.x + nearestPlatform.width + 50)
  IN  UNION { UNION {
        { [rng |-> rot.rng,
           eels |-> Append(s.eels, MakeEel(eelX.val, nearestPlatform.y - off.val, rot.r))]
          : rot \in Draw(off.rng) }
        : off \in randomInRange(eelX.rng, 100, 200) }
        : eelX \in randomInRange(s.rng, lo, hi) }

RECURSIVE EelLoop(_, _, _, _)
EelLoop(floatingPlatforms, eelCount, i, s) ==
  IF i >= eelCount THEN { s }
  ELSE UNION { EelLoop(floatingPlatforms, eelCount, i + 1, s2)
               : s2 \in EelSteps(floatingPlatforms, eelCount, i, s) }

\* Mutant: the check for two floating platforms left out.
generateEels_NoGuard(rng, stageConfig, pfs) ==
  IF stageConfig.eelCount = 0 \/ Len(pfs) < 2 THEN { [rng |-> rng, eels |-> <<>>] }
  ELSE EelLoop(Tail(pfs), stageConfig.eelCount, 0, [rng |-> rng, eels |-> <<>>])

\* generateEels(stageConfig, platforms): every (eels, generator afterwards).
generateEels(rng, stageConfig, pfs) ==
  LET eelCount == stageConfig.eelCount
      floatingPlatforms == Tail(pfs)
  IN  IF eelCount = 0 THEN { [rng |-> rng, eels |-> <<>>] }
      ELSE IF Len(floatingPlatforms) < 2 THEN { [rng |-> rng, eels |-> <<>>] }
      ELSE EelLoop(floatingPlatforms, eelCount, 0, [rng |-> rng, eels |-> <<>>])

\* ------------------------------------------------------ stage configurations
StageConfig(pc, gmin, gmax, bmin, bmax, nr, ir, cr, fg, ec) ==
  [platformCount |-> pc, gapMin |-> gmin, gapMax |-> gmax,
   blockCountMin |-> bmin, blockCountMax |-> bmax,
   normalRatio |-> nr, iceRatio |-> ir, caterpillarRatio |-> cr,
   firstPlatformGap |-> fg, eelCount |-> ec]

\* The configurations generation is run on: a usual stage, unset fields, empty
\* stages, over-wide platforms, ratios above 1, stages with eels, narrow next
\* to wide platforms, an inverted gap range, platforms three canvases wide
\* under an eel, every width that fits the canvas, and gaps down to -50.
StageConfigs ==
  { StageConfig(2, 80, 120, 2, 4, 3, 3, 3, 150, 0),
    StageConfig(3, 100, 100, 3, 3, 10, 0, 0, 0, 1),
    StageConfig(2, 90, 110, 1, 3, 7, 5, 5, 120, 0),
    StageConfig(2, 100, 130, 19, 20, 0, 2, 2, 200, 0),
    StageConfig(2, 100, 100, 19, 19, 10, 0, 0, 100, 2),
    StageConfig(1, 100, 150, 2, 5, 5, 5, 0, 180, 2),
    StageConfig(0, 100, 150, 2, 5, 5, 5, 0, 180, 1),
    StageConfig(0 - 1, 100, 150, 2, 5, 10, 0, 0, 180, 0),
    StageConfig(2, 100, 100, 1, 11, 10, 0, 0, 150, 0),
    StageConfig(2, 120, 80, 2, 2, 10, 0, 0, 150, 0),
    StageConfig(3, 100, 100, 60, 60, 10, 0, 0, 150, 1),
    StageConfig(3, 100, 100, 1, 19, 10, 0, 0, 150, 0),
    StageConfig(2, 0 - 50, 50, 19, 19, 10, 0, 0, 150, 1) }

\* ---------------------------------------------------------- generateStars
\* types[Math.floor(currentRandom() * types.length)]
StarTypes == <<"dot", "cross", "crescent", "sparkle">>
StarTypeFor(r) == StarTypes[((r * Len(StarTypes)) \div RandDen) + 1]

\* Math.floor(totalHeight / CANVAS_HEIGHT * 30)
starCount(totalHeight) == (totalHeight * 30) \div CANVAS_HEIGHT

\* One iteration of the loop (lines 194-204): s = [rng, stars].  The draws
\* are taken in the order type, x, y, size.
StarSteps(totalHeight, s) ==
  UNION { UNION { UNION {
    LET type == StarTypeFor(t.r)
        x == sx.r * CANVAS_WIDTH
        y == sy.r * (totalHeight + CANVAS_HEIGHT) - FP(totalHeight)
        star(size) == [x |-> x, y |-> y, size |-> size, type |-> type]
    IN  IF type = "crescent"
        THEN { [rng |-> sy.rng, stars |-> Append(s.stars, star(FP(12)))] }
        ELSE IF type = "sparkle"
        THEN { [rng |-> sy.rng, stars |-> Append(s.stars, star(FP(8)))] }
        ELSE { [rng |-> sz.rng, stars |-> Append(s.stars, star(sz.val))]
               : sz \in randomInRange(sy.rng, 2, 4) }
    : sy \in Draw(sx.rng) }
    : sx \in Draw(t.rng) }
    : t \in Draw(s.rng) }

RECURSIVE StarLoop(_, _, _)
StarLoop(totalHeight, i, s) ==
  IF i >= starCount(totalHeight) THEN { s }
  ELSE UNION { StarLoop(totalHeight, i + 1, s2) : s2 \in StarSteps(totalHeight, s) }

\* generateStars(totalHeight): every (stars, generator afterwards).
generateStars(rng, totalHeight) == StarLoop(totalHeight, 0, [rng |-> rng, stars |-> <<>>])

\* ---------------------------------------------------------- calculateScore
\* Times are multiples of 1/TimeDen seconds, held as numerators.
TimeDen == 2

\* Mutant: the time bonus without Math.max(0, ...).
calculateScore_NoMax(stageNumber, clearTime, baseTime) ==
  LET timeBonus == (baseTime - clearTime) * TIME_BONUS_MULTIPLIER
  IN  ((BASE_SCORE * TimeDen + timeBonus) * (stageNumber + 1)) \div (2 * TimeDen)

\* Math.floor((baseScore + timeBonus) * stageMultiplier), with
\* stageMultiplier = 1 + (stageNumber - 1) * 0.5 = (stageNumber + 1) / 2.
calculateScore(stageNumber, clearTime, baseTime) ==
  LET timeBonus == Max(0, (baseTime - clearTime) * TIME_BONUS_MULTIPLIER)
  IN  ((BASE_SCORE * TimeDen + timeBonus) * (stageNumber + 1)) \div (2 * TimeDen)

\* -------------------------------------------------------- useKeyboardInput
\* The key codes the handlers tell apart, and one they ignore.
Keys == {"Space", "ArrowLeft", "ArrowRight", "ArrowUp", "ArrowDown", "KeyA"}

Direction(x, y) == [x |-> x, y |-> y]

\* The initial state of the hook (lines 10-14).
InitialKeyboardState ==
  [isSpacePressed |-> FALSE, arrowDirection |-> Direction(0, -1),
   spaceJustReleased |-> FALSE]

\* handleKeyDown (lines 16-55): the state after the event's setState calls.
handleKeyDown(prev, code) ==
  IF code = "Space"
  THEN [prev EXCEPT !.isSpacePressed = TRUE, !.spaceJustReleased = FALSE]
  ELSE IF code = "ArrowLeft"
  THEN [prev EXCEPT !.arrowDirection = Direction(-1, prev.arrowDirection.y)]
  ELSE IF code = "ArrowRight"
  THEN [prev EXCEPT !.arrowDirection = Direction(1, prev.arrowDirection.y)]
  ELSE IF code = "ArrowUp"
  THEN [prev EXCEPT !.arrowDirection = Direction(prev.arrowDirection.x, -1)]
  ELSE IF code = "ArrowDown"
  THEN [prev EXCEPT !.arrowDirection = Direction(prev.arrowDirection.x, 1)]
  ELSE prev

\* Mutant: the release of Space is flagged, the key still counts as pressed.
handleKeyUp_KeepPressed(prev, code) ==
  IF code = "Space"
  THEN [prev EXCEPT !.spaceJustReleased = TRUE]
  ELSE IF code = "ArrowLeft" \/ code = "ArrowRight"
  THEN [prev EXCEPT !.arrowDirection = Direction(0, prev.arrowDirection.y)]
  ELSE IF code = "ArrowUp" \/ code = "ArrowDown"
  THEN [prev EXCEPT !.arrowDirection = Direction(prev.arrowDirection.x, 0)]
  ELSE prev

\* handleKeyUp (lines 57-80).
handleKeyUp(prev, code) ==
  IF code = "Space"
  THEN [prev EXCEPT !.isSpacePressed = FALSE, !.spaceJustReleased = TRUE]
  ELSE IF code = "ArrowLeft" \/ code = "ArrowRight"
  THEN [prev EXCEPT !.arrowDirection = Direction(0, prev.arrowDirection.y)]
  ELSE IF code = "ArrowUp" \/ code = "ArrowDown"
  THEN [prev EXCEPT !.arrowDirection = Direction(prev.arrowDirection.x, 0)]
  ELSE prev

\* clearSpaceReleased (lines 83-85).
clearSpaceReleased(prev) == [prev EXCEPT !.spaceJustReleased = FALSE]

\* ---------------------------------------------------------- MobileControls
\* Touch identifiers; 0 stands for null (no touch).
MaxTouch == 2
TouchIds == 1 .. MaxTouch

\* The centre of the D-pad's bounding rectangle, and where a touch can be
\* relative to it.
DpadCentre == [x |-> 64, y |-> 540]
Offsets == {-40, -10, 0, 10, 40}

threshold == 15

\* Math.atan2(dy, dx) compared with 0 and with -150, -120, -60 and -30
\* degrees; tan(30 deg) = 1 / sqrt(3) and tan(60 deg) = sqrt(3), so the
\* comparisons are made on squares.
AngleAboveZero(dx, dy) == dy > 0 \/ (dy = 0 /\ dx < 0)
AngleBelow150(dx, dy) == dy < 0 /\ dx < 0 /\ 3 * dy * dy < dx * dx
AngleAbove30(dx, dy) == dy <= 0 /\ dx > 0 /\ 3 * dy * dy < dx * dx
AngleBelow120(dx, dy) == dy < 0 /\ dx < 0 /\ dy * dy < 3 * dx * dx
AngleAbove60(dx, dy) == dy <= 0 /\ dx > 0 /\ dy * dy < 3 * dx * dx

\* calculateDirection (lines 12-50), with the default threshold.
calculateDirection(touchX, touchY, centerX, centerY) ==
  LET dx == touchX - centerX
      dy == touchY - centerY
  IN  IF dx * dx + dy * dy < threshold * threshold THEN Direction(0, 0)
      ELSE IF AngleAboveZero(dx, dy) \/ AngleBelow150(dx, dy) \/ AngleAbove30(dx, dy)
      THEN Direction(0, 0)
      ELSE IF AngleBelow120(dx, dy) THEN Direction(-1, -1)
      ELSE IF AngleAbove60(dx, dy) THEN Direction(1, -1)
      ELSE Direction(0, -1)

\* The D-pad component's state after handleDpadTouchStart (lines 65-79).
handleDpadTouchStart(prev, identifier, clientX, clientY) ==
  LET dir == calculateDirection(clientX, clientY, DpadCentre.x, DpadCentre.y)
  IN  [direction |-> dir, dpadTouchId |-> identifier, handed |-> dir]

\* handleDpadTouchMove (lines 81-96): touches holds the identifiers of
\* e.touches, (clientX, clientY) is where the touch dpadTouchId is.
handleDpadTouchMove(prev, touches, clientX, clientY) ==
  IF prev.dpadTouchId = 0 THEN prev
  ELSE IF prev.dpadTouchId \notin touches THEN prev
  ELSE LET dir == calculateDirection(clientX, clientY, DpadCentre.x, DpadCentre.y)
       IN  [prev EXCEPT !.direction = dir, !.handed = dir]

\* handleDpadTouchEnd (lines 98-107): changed holds the identifiers of
\* e.changedTouches.
handleDpadTouchEnd(prev, changed) ==
  IF prev.dpadTouchId \in changed
  THEN [direction |-> Direction(0, 0), dpadTouchId |-> 0, handed |-> Direction(0, 0)]
  ELSE prev

\* updateDirection (lines 256-262): the direction passed to onDirectionChange.
updateDirection(left, right) ==
  LET x == IF left /\ ~right THEN -1 ELSE IF right /\ ~left THEN 1 ELSE 0
  IN  Direction(x, IF x # 0 THEN -1 ELSE 0)

\* handleLeftTouchStart (lines 265-272).
handleLeftTouchStart(prev, identifier) ==
  [prev EXCEPT !.leftTouchId = identifier, !.isLeftPressed = TRUE,
               !.handed = updateDirection(TRUE, prev.isRightPressed)]

\* handleLeftTouchEnd (lines 274-283).
handleLeftTouchEnd(prev, changed) ==
  IF prev.leftTouchId \in changed
  THEN [prev EXCEPT !.leftTouchId = 0, !.isLeftPressed = FALSE,
                    !.handed = updateDirection(FALSE, prev.isRightPressed)]
  ELSE prev

\* handleRightTouchStart (lines 286-293).
handleRightTouchStart(prev, identifier) ==
  [prev EXCEPT !.rightTouchId = identifier, !.isRightPressed = TRUE,
               !.handed = updateDirection(prev.isLeftPressed, TRUE)]

\* handleRightTouchEnd (lines 295-304).
handleRightTouchEnd(prev, changed) ==
  IF prev.rightTouchId \in changed
  THEN [prev EXCEPT !.rightTouchId = 0, !.isRightPressed = FALSE,
                    !.handed = updateDirection(prev.isLeftPressed, FALSE)]
  ELSE prev

\* handleJumpTouchStart (lines 110-117 and 307-314): the touch becomes the
\* jump's touch and onJumpStart is called.  called is the callback the last
\* event on the jump button called, lastCall the last callback called.
handleJumpTouchStart(prev, identifier) ==
  [prev EXCEPT !.jumpTouchId = identifier, !.isJumpPressed = TRUE,
               !.called = "onJumpStart", !.lastCall = "onJumpStart"]

\* Mutant: the end of any touch on the button ends the jump.
handleJumpTouchEnd_AnyTouch(prev, changed) ==
  IF changed # {}
  THEN [prev EXCEPT !.jumpTouchId = 0, !.isJumpPressed = FALSE,
                    !.called = "onJumpEnd", !.lastCall = "onJumpEnd"]
  ELSE [prev EXCEPT !.called = "none"]

\* handleJumpTouchEnd (lines 119-128 and 316-325): onJumpEnd is called when
\* the jump's touch is among the changed touches.
handleJumpTouchEnd(prev, changed) ==
  IF prev.jumpTouchId \in changed
  THEN [prev EXCEPT !.jumpTouchId = 0, !.isJumpPressed = FALSE,
                    !.called = "onJumpEnd", !.lastCall = "onJumpEnd"]
  ELSE [prev EXCEPT !.called = "none"]

\* ---------------------------------------------------- the actor's physics
\* The ramp of the charge, in time units: chargeRatio is held as a numerator
\* over ChargeTime.
ChargeTime == 3

\* The lengths a tick can have (the time step is variable), in time units.
TickLengths == {1, 2}

\* Gravity per time unit, and the launch speed of a jump without charge.
Gravity == 1
MinLaunch == 1

\* How far below the platform the next surface is when the platform carries
\* the actor off its edge.
MaxDrop == 2

Actor(state, chargeRatio, vy, altitude) ==
  [state |-> state, chargeRatio |-> chargeRatio, vy |-> vy, altitude |-> altitude]

\* A new actor: grounded, no charge, at rest.
NewActor == Actor("grounded", 0, 0, 0)

\* Mutant: the charge grows with every held tick, without a clamp.
Charge_NoClamp(a, dt) == [a EXCEPT !.chargeRatio = a.chargeRatio + dt]

\* The charge grows with the time the jump intent is held and is clamped at 1.
Charge(a, dt) == [a EXCEPT !.chargeRatio = Min(ChargeTime, a.chargeRatio + dt)]

\* The release of the jump: the launch speed grows with chargeRatio, upwards
\* (negative y), and the charge is reset.
Launch(a) == Actor("airborne", 0, 0 - (MinLaunch + a.chargeRatio), 0)

\* Mutant: landing keeps the vertical velocity.
Land_KeepVelocity(a) == Actor("grounded", 0, a.vy, 0)

\* Landing: vertical velocity zeroed, chargeRatio reset, on the surface.
Land(a) == Actor("grounded", 0, 0, 0)

\* A moving platform carries the actor off its edge: the actor falls from
\* rest, drop above the next surface.
FallOff(a, drop) == Actor("airborne", 0, 0, drop)

Die(a) == [a EXCEPT !.state = "dead"]

\* Gravity, then integration with the same dt (update order, steps 1 and 2).
Fly(a, dt) ==
  LET vy == a.vy + Gravity * dt
  IN  [a EXCEPT !.vy = vy, !.altitude = a.altitude - vy * dt]

\* Mutant: the tick does not test for a dead actor, which goes on falling
\* and lands.
TickResults_NoDeadTest(a, dt, jumpIntentActive, water, platform, drop) ==
  IF a.state # "dead" /\ water THEN { Die(a) }
  ELSE IF a.state = "grounded"
  THEN IF drop > 0 THEN { FallOff(a, drop) }
       ELSE IF jumpIntentActive THEN { [a EXCEPT !.state = "charging"] }
       ELSE { a }
  ELSE IF a.state = "charging"
  THEN IF jumpIntentActive THEN { Charge(a, dt) } ELSE { Launch(a) }
  ELSE LET b == Fly(a, dt)
       IN  IF b.vy >= 0 /\ b.altitude <= 0
           THEN IF platform THEN { Land(b) } ELSE { Die(b) }
           ELSE { b }

\* One tick of the physics on actor a: dt is its length, jumpIntentActive the
\* input, water whether the water surface reaches the actor, platform
\* whether a platform is under the actor where it falls, drop how far the
\* platform the actor stands on carries it off (0: it does not).
TickResults(a, dt, jumpIntentActive, water, platform, drop) ==
  IF a.state = "dead" THEN { a }
  ELSE IF water THEN { Die(a) }
  ELSE IF a.state = "grounded"
  THEN IF drop > 0 THEN { FallOff(a, drop) }
       ELSE IF jumpIntentActive THEN { [a EXCEPT !.state = "charging"] }
       ELSE { a }
  ELSE IF a.state = "charging"
  THEN IF jumpIntentActive THEN { Charge(a, dt) } ELSE { Launch(a) }
  ELSE LET b == Fly(a, dt)
       IN  IF b.vy >= 0 /\ b.altitude <= 0
           THEN IF platform THEN { Land(b) } ELSE { Die(b) }
           ELSE { b }

\* ------------------------------------------------------------ state machine
None == [none |-> TRUE]

VARIABLES
  currentRandom,  \* the module's generator (line 18)
  stageConfig,    \* the stage configuration generation is called with
  phase,          \* how far the generation of the stage has got
  platforms,      \* the list generatePlatforms returned
  genLog,         \* per floating platform: minX, maxX and xRaw of its iteration
  moon,           \* the moon generateMoon returned
  eels,           \* the list generateEels returned
  stars,          \* the list generateStars returned
  totalHeight,    \* the height generateStars is called with
  typeDraw,       \* a call of determinePlatformType: its draw and its result
  scoreCall,      \* a call of calculateScore: its arguments and its result
  seedOfStage,    \* the stage number the generator was seeded with just
                  \* before this stage's generation (0: it was not seeded)
  memo,           \* every (stage number, configuration, height, layout) a
                  \* seeded generation has produced, once or again
  round,          \* the number of stages generated so far
  keyboard,       \* the state of useKeyboardInput
  held,           \* the keys that are physically down
  dpad,           \* MobileControls with a D-pad: direction, dpadTouchId and
                  \* the last direction passed to onDirectionChange
  buttons,        \* MobileControls with left and right buttons: touch ids,
                  \* pressed flags and the last direction passed on
  jump,           \* the jump button: jumpTouchId, isJumpPressed and the
                  \* calls of onJumpStart and onJumpEnd
  active,         \* for each touch identifier, the element it is down on
  tako,           \* the actor: state, chargeRatio, vertical velocity, altitude
  lastStep        \* what changed the actor last, and its state before that

stageVars == <<currentRandom, stageConfig, phase, platforms, genLog, moon, eels, stars,
               totalHeight, typeDraw, scoreCall, seedOfStage, memo, round>>

inputVars == <<keyboard, held, dpad, buttons, jump, active>>

actorVars == <<tako, lastStep>>

vars == <<stageVars, inputVars, actorVars>>

\* The input layer as mounted: the hook and the components in their initial
\* state, no touch down, nothing passed to onDirectionChange yet.
Mounted ==
  /\ keyboard = InitialKeyboardState
  /\ dpad = [direction |-> Direction(0, 0), dpadTouchId |-> 0, handed |-> None]
  /\ buttons = [leftTouchId |-> 0, rightTouchId |-> 0, isLeftPressed |-> FALSE,
                isRightPressed |-> FALSE, handed |-> None]
  /\ jump = [jumpTouchId |-> 0, isJumpPressed |-> FALSE, called |-> "none",
             lastCall |-> "none"]
  /\ active = [t \in TouchIds |-> "none"]

\* The actor as created, before any tick.
Spawned ==
  /\ tako = NewActor
  /\ lastStep = [by |-> "none", from |-> "grounded"]

\* The module as loaded: currentRandom = Math.random, nothing generated.
Loaded ==
  /\ currentRandom = NativeRandom
  /\ phase = "start"
  /\ platforms = <<>>
  /\ genLog = <<>>
  /\ moon = None
  /\ eels = <<>>
  /\ stars = <<>>
  /\ typeDraw = None
  /\ seedOfStage = 0
  /\ memo = {}
  /\ round = 0

Init ==
  /\ Loaded
  /\ Mounted
  /\ Spawned
  /\ held = {}
  /\ stageConfig \in StageConfigs
  /\ totalHeight = 0
  /\ scoreCall = None

\* setRandomSeed(stageNumber)
SetRandomSeed(n) ==
  /\ phase = "start"
  /\ currentRandom' = NewGenerator(currentRandom, SeedOf(n))
  /\ seedOfStage' = n
  /\ UNCHANGED <<inputVars, actorVars>>
  /\ UNCHANGED <<stageConfig, phase, platforms, genLog, moon, eels, stars,
                 totalHeight, typeDraw, scoreCall, memo, round>>

\* platforms = generatePlatforms(stageConfig)
GeneratePlatforms ==
  /\ phase = "start"
  /\ \E out \in generatePlatforms(currentRandom, stageConfig) :
       /\ platforms' = out.platforms
       /\ genLog' = out.log
       /\ currentRandom' = out.rng
  /\ phase' = "platforms"
  /\ UNCHANGED <<inputVars, actorVars>>
  /\ UNCHANGED <<stageConfig, moon, eels, stars, totalHeight, typeDraw, scoreCall,
                 seedOfStage, memo, round>>

\* moon = generateMoon(platforms)
GenerateMoon ==
  /\ phase = "platforms"
  /\ moon' = generateMoon(platforms)
  /\ phase' = "moon"
  /\ UNCHANGED <<inputVars, actorVars>>
  /\ UNCHANGED <<currentRandom, stageConfig, platforms, genLog, eels, stars,
                 totalHeight, typeDraw, scoreCall, seedOfStage, memo, round>>

\* eels = generateEels(stageConfig, platforms)
GenerateEels ==
  /\ phase = "moon"
  /\ \E out \in generateEels(currentRandom, stageConfig, platforms) :
       /\ eels' = out.eels
       /\ currentRandom' = out.rng
  /\ phase' = "eels"
  /\ UNCHANGED <<inputVars, actorVars>>
  /\ UNCHANGED <<stageConfig, platforms, genLog, moon, stars, totalHeight, typeDraw,
                 scoreCall, seedOfStage, memo, round>>

Next ==
  \/ \E n \in 1 .. MaxStage : SetRandomSeed(n)
  \/ GeneratePlatforms
  \/ GenerateMoon
  \/ GenerateEels

Spec == Init /\ [][Next]_vars

\* ------------------------------------- determinePlatformType on its own
\* The ratios determinePlatformType is run on, in steps of 1/RatioDen.
RatioValues == {0, 2, 4, 7}

RatioConfigs ==
  { StageConfig(1, 100, 100, 2, 2, n, i, c, 100, 0)
    : n \in RatioValues, i \in RatioValues, c \in RatioValues }

InitType ==
  /\ Loaded
  /\ Mounted
  /\ Spawned
  /\ held = {}
  /\ stageConfig \in RatioConfigs
  /\ totalHeight = 0
  /\ scoreCall = None

\* type = determinePlatformType(stageConfig)
DeterminePlatformType ==
  /\ typeDraw = None
  /\ \E out \in determinePlatformType(currentRandom, stageConfig) :
       /\ typeDraw' = [rand |-> out.rand, type |-> out.val]
       /\ currentRandom' = out.rng
  /\ UNCHANGED <<inputVars, actorVars>>
  /\ UNCHANGED <<stageConfig, phase, platforms, genLog, moon, eels, stars,
                 totalHeight, scoreCall, seedOfStage, memo, round>>

NextType == DeterminePlatformType

SpecType == InitType /\ [][NextType]_vars

\* ------------------------------------------------ calculateScore on its own
ScoreStages == 1 .. 4
ClearTimes ==
  {0, 31, 40 * TimeDen, 60 * TimeDen - 1, 60 * TimeDen, 60 * TimeDen + 1, 80 * TimeDen}
BaseTimes == {30 * TimeDen, 60 * TimeDen}

InitScore ==
  /\ Loaded
  /\ Mounted
  /\ Spawned
  /\ held = {}
  /\ stageConfig \in { StageConfig(0, 0, 0, 0, 0, 0, 0, 0, 0, 0) }
  /\ totalHeight = 0
  /\ scoreCall \in [stageNumber : ScoreStages, clearTime : ClearTimes,
                    baseTime : BaseTimes, returned : {FALSE}, score : {0}]

\* score = calculateScore(stageNumber, clearTime, baseTime)
CalculateScore ==
  /\ scoreCall # None
  /\ ~scoreCall.returned
  /\ scoreCall' = [scoreCall EXCEPT !.returned = TRUE, !.score =
       calculateScore(scoreCall.stageNumber, scoreCall.clearTime, scoreCall.baseTime)]
  /\ UNCHANGED <<inputVars, actorVars>>
  /\ UNCHANGED <<currentRandom, stageConfig, phase, platforms, genLog, moon, eels,
                 stars, totalHeight, typeDraw, seedOfStage, memo, round>>

NextScore == CalculateScore

SpecScore == InitScore /\ [][NextScore]_vars

\* ------------------------------------------- stage after stage, with seeds
\* The stages a session generates, each a configuration and the height of
\* its sky: platforms and eels; platforms and stars; platforms, eels and stars.
SeedStages ==
  { [config |-> StageConfig(2, 100, 100, 2, 2, 10, 0, 0, 150, 1), height |-> 0],
    [config |-> StageConfig(1, 80, 120, 2, 3, 5, 5, 0, 0, 0), height |-> 30],
    [config |-> StageConfig(2, 90, 110, 19, 19, 10, 0, 0, 120, 1), height |-> 30] }

\* A session generates at most MaxRounds further stages after the first.
MaxRounds == 2

InitSeed ==
  /\ Loaded
  /\ Mounted
  /\ Spawned
  /\ held = {}
  /\ \E st \in SeedStages : stageConfig = st.config /\ totalHeight = st.height
  /\ scoreCall = None

\* The layout a seeded generation produced, under the arguments it had, and
\* whether it was produced once or again.
MemoEntry(layoutStars, again) ==
  [stageNumber |-> seedOfStage, stageConfig |-> stageConfig, totalHeight |-> totalHeight,
   platforms |-> platforms, eels |-> eels, stars |-> layoutStars, again |-> again]

Remember(layoutStars) ==
  IF seedOfStage = 0 THEN memo
  ELSE IF \E m \in memo : m = MemoEntry(layoutStars, m.again)
  THEN { m \in memo : m # MemoEntry(layoutStars, m.again) }
         \cup { MemoEntry(layoutStars, TRUE) }
  ELSE memo \cup { MemoEntry(layoutStars, FALSE) }

\* stars = generateStars(totalHeight)
GenerateStars ==
  /\ phase = "eels"
  /\ \E out \in generateStars(currentRandom, totalHeight) :
       /\ stars' = out.stars
       /\ currentRandom' = out.rng
       /\ memo' = Remember(out.stars)
  /\ phase' = "stars"
  /\ UNCHANGED <<inputVars, actorVars>>
  /\ UNCHANGED <<stageConfig, platforms, genLog, moon, eels, totalHeight, typeDraw,
                 scoreCall, seedOfStage, round>>

\* The caller discards the stage and starts another one; the module keeps
\* its generator.
NewStage ==
  /\ phase = "stars"
  /\ round < MaxRounds
  /\ round' = round + 1
  /\ phase' = "start"
  /\ \E st \in SeedStages : stageConfig' = st.config /\ totalHeight' = st.height
  /\ platforms' = <<>>
  /\ genLog' = <<>>
  /\ moon' = None
  /\ eels' = <<>>
  /\ stars' = <<>>
  /\ seedOfStage' = 0
  /\ UNCHANGED <<inputVars, actorVars>>
  /\ UNCHANGED <<currentRandom, typeDraw, scoreCall, memo>>

NextSeed ==
  \/ \E n \in 1 .. MaxStage : SetRandomSeed(n)
  \/ GeneratePlatforms
  \/ GenerateMoon
  \/ GenerateEels
  \/ GenerateStars
  \/ NewStage

SpecSeed == InitSeed /\ [][NextSeed]_vars

\* ------------------------------------------------------ the keyboard hook
\* The hook mounts while any set of keys is down: their keydown events came
\* before the listeners were added (lines 87-95).
InitKeyboard ==
  /\ Loaded
  /\ Mounted
  /\ Spawned
  /\ held \in SUBSET Keys
  /\ stageConfig \in { StageConfig(0, 0, 0, 0, 0, 0, 0, 0, 0, 0) }
  /\ totalHeight = 0
  /\ scoreCall = None

\* A keydown event: the key goes down, or repeats while it is down.
KeyDown(code) ==
  /\ held' = held \cup {code}
  /\ keyboard' = handleKeyDown(keyboard, code)
  /\ UNCHANGED <<stageVars, actorVars, dpad, buttons, jump, active>>

\* A keyup event: a key that is down goes up.
KeyUp(code) ==
  /\ code \in held
  /\ held' = held \ {code}
  /\ keyboard' = handleKeyUp(keyboard, code)
  /\ UNCHANGED <<stageVars, actorVars, dpad, buttons, jump, active>>

\* The caller consumes the release.
ClearSpaceReleased ==
  /\ keyboard' = clearSpaceReleased(keyboard)
  /\ UNCHANGED <<stageVars, actorVars, held, dpad, buttons, jump, active>>

NextKeyboard ==
  \/ \E code \in Keys : KeyDown(code)
  \/ \E code \in Keys : KeyUp(code)
  \/ ClearSpaceReleased

SpecKeyboard == InitKeyboard /\ [][NextKeyboard]_vars

\* The hook mounts with no key down: it receives the keydown event of every
\* key that is held afterwards.
InitArrows ==
  /\ Loaded
  /\ Mounted
  /\ Spawned
  /\ held = {}
  /\ stageConfig \in { StageConfig(0, 0, 0, 0, 0, 0, 0, 0, 0, 0) }
  /\ totalHeight = 0
  /\ scoreCall = None

SpecArrows == InitArrows /\ [][NextKeyboard]_vars

\* --------------------------------------------------------- the touch controls
InitTouch ==
  /\ Loaded
  /\ Mounted
  /\ Spawned
  /\ held = {}
  /\ stageConfig \in { StageConfig(0, 0, 0, 0, 0, 0, 0, 0, 0, 0) }
  /\ totalHeight = 0
  /\ scoreCall = None

\* The identifiers of the touches that are down: e.touches.
Touches == { t \in TouchIds : active[t] # "none" }

\* A finger goes down on an element: touchstart with that one changed touch.
TouchDown(t, element) ==
  /\ active[t] = "none"
  /\ active' = [active EXCEPT ![t] = element]

\* A finger goes up or is cancelled: touchend or touchcancel on the element
\* it went down on, with that one changed touch.
TouchUp(t, element) ==
  /\ active[t] = element
  /\ active' = [active EXCEPT ![t] = "none"]

DpadTouchStart(t) ==
  /\ TouchDown(t, "dpad")
  /\ \E dx \in Offsets : \E dy \in Offsets :
       dpad' = handleDpadTouchStart(dpad, t, DpadCentre.x + dx, DpadCentre.y + dy)
  /\ UNCHANGED <<stageVars, actorVars, keyboard, held, buttons, jump>>

\* A finger that went down on the D-pad moves.
DpadTouchMove(t) ==
  /\ active[t] = "dpad"
  /\ \E dx \in Offsets : \E dy \in Offsets :
       dpad' = handleDpadTouchMove(dpad, Touches, DpadCentre.x + dx, DpadCentre.y + dy)
  /\ UNCHANGED <<stageVars, actorVars, keyboard, held, buttons, jump, active>>

DpadTouchEnd(t) ==
  /\ TouchUp(t, "dpad")
  /\ dpad' = handleDpadTouchEnd(dpad, {t})
  /\ UNCHANGED <<stageVars, actorVars, keyboard, held, buttons, jump>>

LeftTouchStart(t) ==
  /\ TouchDown(t, "left")
  /\ buttons' = handleLeftTouchStart(buttons, t)
  /\ UNCHANGED <<stageVars, actorVars, keyboard, held, dpad, jump>>

LeftTouchEnd(t) ==
  /\ TouchUp(t, "left")
  /\ buttons' = handleLeftTouchEnd(buttons, {t})
  /\ UNCHANGED <<stageVars, actorVars, keyboard, held, dpad, jump>>

RightTouchStart(t) ==
  /\ TouchDown(t, "right")
  /\ buttons' = handleRightTouchStart(buttons, t)
  /\ UNCHANGED <<stageVars, actorVars, keyboard, held, dpad, jump>>

RightTouchEnd(t) ==
  /\ TouchUp(t, "right")
  /\ buttons' = handleRightTouchEnd(buttons, {t})
  /\ UNCHANGED <<stageVars, actorVars, keyboard, held, dpad, jump>>

JumpTouchStart(t) ==
  /\ TouchDown(t, "jump")
  /\ jump' = handleJumpTouchStart(jump, t)
  /\ UNCHANGED <<stageVars, actorVars, keyboard, held, dpad, buttons>>

JumpTouchEnd(t) ==
  /\ TouchUp(t, "jump")
  /\ jump' = handleJumpTouchEnd(jump, {t})
  /\ UNCHANGED <<stageVars, actorVars, keyboard, held, dpad, buttons>>

NextTouch ==
  \E t \in TouchIds :
    \/ DpadTouchStart(t)
    \/ DpadTouchMove(t)
    \/ DpadTouchEnd(t)
    \/ LeftTouchStart(t)
    \/ LeftTouchEnd(t)
    \/ RightTouchStart(t)
    \/ RightTouchEnd(t)
    \/ JumpTouchStart(t)
    \/ JumpTouchEnd(t)

SpecTouch == InitTouch /\ [][NextTouch]_vars

\* ------------------------------------------------------- the actor's ticks
InitActor ==
  /\ Loaded
  /\ Mounted
  /\ Spawned
  /\ held = {}
  /\ stageConfig \in { StageConfig(0, 0, 0, 0, 0, 0, 0, 0, 0, 0) }
  /\ totalHeight = 0
  /\ scoreCall = None

\* One tick of the physics engine.
Tick ==
  /\ \E dt \in TickLengths : \E jumpIntentActive \in BOOLEAN : \E water \in BOOLEAN :
       \E platform \in BOOLEAN : \E drop \in 0 .. MaxDrop :
         tako' \in TickResults(tako, dt, jumpIntentActive, water, platform, drop)
  /\ lastStep' = [by |-> "tick", from |-> tako.state]
  /\ UNCHANGED <<stageVars, inputVars>>

\* The caller replaces a dead actor by a new one.
Respawn ==
  /\ tako.state = "dead"
  /\ tako' = NewActor
  /\ lastStep' = [by |-> "reset", from |-> tako.state]
  /\ UNCHANGED <<stageVars, inputVars>>

NextActor ==
  \/ Tick
  \/ Respawn

SpecActor == InitActor /\ [][NextActor]_vars

\* ------------------------------------------------------------------ claims
Generated == phase # "start"

\* The indices of the floating platforms (the ground is platforms[1]).
Floating == IF Generated THEN 2 .. Len(platforms) ELSE {}

Centre(p) == p.x + p.width \div 2

\* C2: the centres of consecutive floating platforms are at most
\* maxHorizontalJump apart.
C2_Reachability ==
  \A i \in Floating : i + 1 \in Floating =>
    Abs(Centre(platforms[i]) - Centre(platforms[i + 1])) <= maxHorizontalJump

\* C3: after generation, index 0 holds the ground (x = 0, full width, normal,
\* y = CANVAS_HEIGHT - 50) for every configuration, and no floating platform
\* is the ground: none lies at the ground's height.
C3_GroundInvariant ==
  Generated =>
    /\ Len(platforms) >= 1
    /\ platforms[1].x = 0
    /\ platforms[1].width = CANVAS_WIDTH
    /\ platforms[1].type = "normal"
    /\ platforms[1].y = (CANVAS_HEIGHT - 50) * RandDen
    /\ \A i \in Floating : platforms[i] # platforms[1] /\ platforms[i].y # platforms[1].y

\* C3 witness: generation ran on a configuration with platformCount <= 0.
C3_Witness ==
  Generated /\ stageConfig.platformCount <= 0 /\ Len(platforms) = 1

\* C4, as claimed: every floating x is a multiple of BLOCK_SIZE with
\* 10 <= x <= CANVAS_WIDTH - width - 10.
C4_Original ==
  \A i \in Floating :
    /\ platforms[i].x % BLOCK_SIZE = 0
    /\ 10 <= platforms[i].x
    /\ platforms[i].x <= CANVAS_WIDTH - platforms[i].width - 10

\* C4, amended: every floating x is a multiple of BLOCK_SIZE at most half a
\* block from the sampled xRaw, and it is xRaw that lies in
\* [10, CANVAS_WIDTH - width - 10], provided the window is not inverted.
C4_Amended ==
  \A i \in Floating :
    /\ platforms[i].x % BLOCK_SIZE = 0
    /\ 2 * Abs(FP(platforms[i].x) - genLog[i - 1].xRaw) <= FP(BLOCK_SIZE)
    /\ genLog[i - 1].minX <= genLog[i - 1].maxX =>
         /\ FP(10) <= genLog[i - 1].xRaw
         /\ genLog[i - 1].xRaw <= FP(CANVAS_WIDTH - platforms[i].width - 10)

\* C4 witness: a platform sampled at the very edge of a non-inverted window
\* and moved by the snapping.
C4_Witness ==
  \E i \in Floating :
    /\ genLog[i - 1].minX <= genLog[i - 1].maxX
    /\ genLog[i - 1].xRaw = FP(10)
    /\ platforms[i].x # 10

\* C5: with an inverted window (minX > maxX) generation still returns every
\* platform, with a numeric x, and xRaw lies between maxX and minX.
C5_InvertedWindow ==
  Generated =>
    /\ Len(platforms) = 1 + Max(stageConfig.platformCount, 0)
    /\ \A i \in Floating :
         genLog[i - 1].minX > genLog[i - 1].maxX =>
           /\ platforms[i].x \in Int
           /\ FP(genLog[i - 1].maxX) <= genLog[i - 1].xRaw
           /\ genLog[i - 1].xRaw <= FP(genLog[i - 1].minX)

\* C5 witness: a platform placed from an inverted window, strictly inside it.
C5_Witness ==
  \E i \in Floating :
    /\ genLog[i - 1].minX > genLog[i - 1].maxX
    /\ genLog[i - 1].xRaw < FP(genLog[i - 1].minX)

C8_BlockCount ==
  \A i \in Floating :
    stageConfig.blockCountMin <= stageConfig.blockCountMax =>
      /\ platforms[i].blockCount \in Int
      /\ stageConfig.blockCountMin <= platforms[i].blockCount
      /\ platforms[i].blockCount <= stageConfig.blockCountMax
      /\ platforms[i].width = platforms[i].blockCount * BLOCK_SIZE

\* C8 witness: both endpoints of a proper range drawn in one stage.
C8_Witness ==
  /\ stageConfig.blockCountMin < stageConfig.blockCountMax
  /\ \E i \in Floating : platforms[i].blockCount = stageConfig.blockCountMin
  /\ \E j \in Floating : platforms[j].blockCount = stageConfig.blockCountMax

\* C10: generateEels returns no eel when eelCount is 0 or fewer than two
\* platforms float, and otherwise eelCount eels, none of them collected.
C10_EelCount ==
  phase = "eels" =>
    IF stageConfig.eelCount = 0 \/ Len(platforms) < 3
    THEN eels = <<>>
    ELSE /\ Len(eels) = stageConfig.eelCount
         /\ \A k \in 1 .. Len(eels) : eels[k].isCollected = FALSE

\* C10 witness: two eels were placed.
C10_Witness ==
  phase = "eels" /\ stageConfig.eelCount = 2 /\ Len(eels) = 2

\* The target height of eel k (k from 1) times eelCount + 1: the heights are
\* evenly spaced between the last and the first floating platform.
EelTarget(k) ==
  LET lowestY == platforms[2].y
      highestY == platforms[Len(platforms)].y
  IN  highestY * (stageConfig.eelCount + 1) + (lowestY - highestY) * k

\* Floating platform j is one nearest in y to the target height of eel k.
NearestTo(j, k) ==
  \A i \in Floating :
    Abs(platforms[j].y * (stageConfig.eelCount + 1) - EelTarget(k))
      <= Abs(platforms[i].y * (stageConfig.eelCount + 1) - EelTarget(k))

\* C11: every eel sits by a floating platform p nearest in y to the eel's
\* evenly spaced target height, with p.y - 200 <= eel.y <= p.y - 100,
\* 20 <= eel.x <= CANVAS_WIDTH - EEL_SIZE - 20 and
\* p.x - 50 <= eel.x <= p.x + p.width + 50.
C11_EelBounds ==
  phase = "eels" =>
    \A k \in 1 .. Len(eels) : \E j \in Floating :
      /\ NearestTo(j, k)
      /\ platforms[j].y - FP(200) <= eels[k].y
      /\ eels[k].y <= platforms[j].y - FP(100)
      /\ FP(20) <= eels[k].x
      /\ eels[k].x <= FP(CANVAS_WIDTH - EEL_SIZE - 20)
      /\ FP(platforms[j].x - 50) <= eels[k].x
      /\ eels[k].x <= FP(platforms[j].x + platforms[j].width + 50)

\* C12: the moon is centred on the canvas (moon.x + moon.size / 2 =
\* CANVAS_WIDTH / 2) and 200 above the platform with the minimum y, so it is
\* strictly higher than every platform, also when only the ground exists.
C12_Moon ==
  moon # None =>
    /\ 2 * moon.x + FP(moon.size) = FP(CANVAS_WIDTH)
    /\ \E i \in 1 .. Len(platforms) :
         /\ \A j \in 1 .. Len(platforms) : platforms[i].y <= platforms[j].y
         /\ moon.y = platforms[i].y - FP(200)
    /\ \A j \in 1 .. Len(platforms) : moon.y < platforms[j].y

\* C12 witness: a moon over three floating platforms.
C12_Witness ==
  moon # None /\ Len(platforms) = 4 /\ moon.y = platforms[4].y - FP(200)

\* C13: for platformCount <= 0 generatePlatforms returns exactly one
\* platform, the ground; for platformCount = k > 0 it returns k + 1 platforms;
\* every platform has a numeric x, y, width and blockCount.
C13_PlatformCount ==
  Generated =>
    /\ stageConfig.platformCount <= 0 => platforms = <<GroundPlatform>>
    /\ stageConfig.platformCount > 0 => Len(platforms) = stageConfig.platformCount + 1
    /\ \A i \in 1 .. Len(platforms) :
         /\ platforms[i].x \in Int
         /\ platforms[i].y \in Int
         /\ platforms[i].width \in Int
         /\ platforms[i].blockCount \in Int

\* C13 witness: generation ran with a negative platformCount.
C13_Witness ==
  Generated /\ stageConfig.platformCount < 0 /\ platforms = <<GroundPlatform>>

\* Every vertical gap of the configuration is at least one pixel:
\* firstPlatformGap is unset (0, replaced by 200) or at least 1, and gapMin
\* and gapMax are at least 1.
PositiveGaps ==
  /\ stageConfig.firstPlatformGap = 0 \/ stageConfig.firstPlatformGap >= 1
  /\ stageConfig.gapMin >= 1
  /\ stageConfig.gapMax >= 1

\* C14, as claimed: after generation y strictly decreases with the index,
\* platforms[i+1].y < platforms[i].y for all i.
C14_Original ==
  Generated =>
    \A i \in 1 .. Len(platforms) - 1 : platforms[i + 1].y < platforms[i].y

\* C14, amended: when every gap of the configuration is at least one pixel, y
\* strictly decreases with the index, so the first floating platform is the
\* lowest floating one and the last platform the highest of all.
C14_Amended ==
  Generated /\ PositiveGaps =>
    /\ \A i \in 1 .. Len(platforms) - 1 : platforms[i + 1].y < platforms[i].y
    /\ \A i \in Floating :
         /\ platforms[Len(platforms)].y <= platforms[i].y
         /\ platforms[i].y <= platforms[2].y

\* C14 witness: two floating platforms above the ground, their gap drawn from
\* an inverted range of positive gaps.
C14_Witness ==
  /\ Generated
  /\ PositiveGaps
  /\ stageConfig.gapMin > stageConfig.gapMax
  /\ Len(platforms) >= 3

\* x in {-1, 0, 1} and y in {-1, 0}.
InDomain(direction) == direction.x \in {-1, 0, 1} /\ direction.y \in {-1, 0}

\* C15: after any key events and any touch events, the direction the input
\* layer hands to the core has x in {-1, 0, 1} and y in {-1, 0}.
C15_DirectionDomain ==
  /\ InDomain(keyboard.arrowDirection)
  /\ dpad.handed # None => InDomain(dpad.handed)
  /\ buttons.handed # None => InDomain(buttons.handed)

\* The touch controls alone: every direction passed to onDirectionChange, by
\* the D-pad or by the buttons, has x in {-1, 0, 1} and y in {-1, 0}.
TouchDirectionDomain ==
  /\ dpad.handed # None => InDomain(dpad.handed)
  /\ buttons.handed # None => InDomain(buttons.handed)

\* C16: spaceJustReleased becomes true only in a step in which
\* isSpacePressed changes from true to false.
C16_ReleaseOnTransition ==
  [][(~keyboard.spaceJustReleased /\ keyboard'.spaceJustReleased)
       => (keyboard.isSpacePressed /\ ~keyboard'.isSpacePressed)]_vars

\* C17: in every reachable actor state 0 <= chargeRatio <= 1, however long
\* the jump intent is held (chargeRatio is a numerator over ChargeTime).
C17_ChargeClamp ==
  /\ 0 <= tako.chargeRatio
  /\ tako.chargeRatio <= ChargeTime

\* C17 witness: the intent was held for one more tick with the charge full.
C17_Witness ==
  /\ lastStep.by = "tick"
  /\ lastStep.from = "charging"
  /\ tako.state = "charging"
  /\ tako.chargeRatio = ChargeTime

\* The last step was a tick that took the actor from one state to another.
Transition(from, to) ==
  lastStep.by = "tick" /\ lastStep.from = from /\ tako.state = to

\* C18: after every tick that takes the actor from airborne to grounded,
\* chargeRatio is 0 and the vertical velocity is 0.
C18_LandingReset ==
  Transition("airborne", "grounded") => tako.chargeRatio = 0 /\ tako.vy = 0

\* C18 witness: the actor has just landed.
C18_Witness == Transition("airborne", "grounded")

C20_InsideCanvas ==
  stageConfig.blockCountMax * BLOCK_SIZE <= CANVAS_WIDTH - 20 =>
    \A i \in Floating :
      /\ 0 <= platforms[i].x
      /\ platforms[i].x + platforms[i].width <= CANVAS_WIDTH

\* C21: after any sequence of keydown, keyup and clearSpaceReleased events,
\* isSpacePressed and spaceJustReleased are never both true; spaceJustReleased
\* goes from true to false only in a call of clearSpaceReleased or a keydown
\* of Space; and a call of clearSpaceReleased leaves isSpacePressed and
\* arrowDirection as they were.
C21_SpaceFlags ==
  /\ [](~(keyboard.isSpacePressed /\ keyboard.spaceJustReleased))
  /\ [][(keyboard.spaceJustReleased /\ ~keyboard'.spaceJustReleased)
          => (ClearSpaceReleased \/ KeyDown("Space"))]_vars
  /\ [][ClearSpaceReleased
          => /\ keyboard'.isSpacePressed = keyboard.isSpacePressed
             /\ keyboard'.arrowDirection = keyboard.arrowDirection]_vars

\* C21 witness: Space was released, the release is not consumed yet, and an
\* arrow key event has set the direction meanwhile.
C21_Witness ==
  /\ keyboard.spaceJustReleased
  /\ ~keyboard.isSpacePressed
  /\ "Space" \notin held
  /\ "ArrowLeft" \in held
  /\ keyboard.arrowDirection.x = -1

\* C22: arrowDirection.x matches the horizontal arrow keys that are held: it
\* is -1 only while ArrowLeft is held and 1 only while ArrowRight is held,
\* and while exactly one of the two is held it is that key's direction.
C22_HorizontalMatchesHeld ==
  LET left == "ArrowLeft" \in held
      right == "ArrowRight" \in held
      x == keyboard.arrowDirection.x
  IN  /\ x = -1 => left
      /\ x = 1 => right
      /\ left /\ ~right => x = -1
      /\ right /\ ~left => x = 1

\* C23: a touchend or touchcancel on the jump button calls onJumpEnd only
\* when the touch is the one that started the current jump, and then the
\* last callback before it was onJumpStart; the end of a touch with another
\* identifier calls nothing.
C23_JumpEndOwnTouch ==
  [][\A t \in TouchIds :
       JumpTouchEnd(t) =>
         /\ jump'.called = "onJumpEnd" =>
              jump.jumpTouchId = t /\ jump.lastCall = "onJumpStart"
         /\ jump.jumpTouchId # t =>
              jump'.called = "none" /\ jump'.lastCall = jump.lastCall]_vars

\* C23 witness: a second finger started a jump while the first was down, and
\* then the first finger went up: nothing was called and the jump goes on.
C23_Witness ==
  /\ jump.called = "none"
  /\ jump.lastCall = "onJumpStart"
  /\ jump.isJumpPressed
  /\ jump.jumpTouchId # 0
  /\ active[jump.jumpTouchId] = "jump"

\* C6: determinePlatformType is a cumulative weighted draw over the ratios
\* n, i, c: normal below n, ice in [n, n+i), caterpillar in [n+i, n+i+c),
\* normal from n+i+c on; the result is never any other type.
C6_TypeDraw ==
  typeDraw # None =>
    LET r == typeDraw.rand * RatioDen
        n == stageConfig.normalRatio * RandDen
        i == stageConfig.iceRatio * RandDen
        c == stageConfig.caterpillarRatio * RandDen
    IN  /\ r < n => typeDraw.type = "normal"
        /\ n <= r /\ r < n + i => typeDraw.type = "ice"
        /\ n + i <= r /\ r < n + i + c => typeDraw.type = "caterpillar"
        /\ n + i + c <= r => typeDraw.type = "normal"
        /\ typeDraw.type \in {"normal", "ice", "caterpillar"}
        /\ typeDraw.type # "moving"

\* C6 witness: ratios summing above 1, and a draw in the caterpillar band.
C6_Witness ==
  /\ typeDraw # None
  /\ stageConfig.normalRatio + stageConfig.iceRatio + stageConfig.caterpillarRatio > RatioDen
  /\ stageConfig.normalRatio > 0
  /\ stageConfig.iceRatio > 0
  /\ typeDraw.type = "caterpillar"

ScoreDone == scoreCall # None /\ scoreCall.returned

\* C9: the score is the floor of (BASE_SCORE + max(0, (baseTime - clearTime)
\* * TIME_BONUS_MULTIPLIER)) * (1 + (stageNumber - 1) / 2); a clearTime above
\* baseTime earns no bonus; stage 3 cleared in 40 s of 60 s scores 600.
C9_Score ==
  ScoreDone =>
    LET n == scoreCall.stageNumber
        late == scoreCall.clearTime > scoreCall.baseTime
        bonus == IF late THEN 0
                 ELSE (scoreCall.baseTime - scoreCall.clearTime) * TIME_BONUS_MULTIPLIER
        exact == (BASE_SCORE * TimeDen + bonus) * (n + 1)
    IN  /\ 2 * TimeDen * scoreCall.score <= exact
        /\ exact < 2 * TimeDen * (scoreCall.score + 1)
        /\ late => /\ 2 * scoreCall.score <= BASE_SCORE * (n + 1)
                   /\ BASE_SCORE * (n + 1) < 2 * (scoreCall.score + 1)
        /\ (n = 3 /\ scoreCall.clearTime = 40 * TimeDen /\ scoreCall.baseTime = 60 * TimeDen
            /\ BASE_SCORE = 100 /\ TIME_BONUS_MULTIPLIER = 10)
             => scoreCall.score = 600

\* C9 witness: a stage cleared later than its base time.
C9_Witness ==
  ScoreDone /\ scoreCall.clearTime > scoreCall.baseTime /\ scoreCall.stageNumber = 2

SameStage(a, b) ==
  /\ a.stageNumber = b.stageNumber
  /\ a.stageConfig = b.stageConfig
  /\ a.totalHeight = b.totalHeight

\* C1: setRandomSeed(n) followed by generatePlatforms(c), generateEels(c,
\* platforms) and generateStars(h) gives the same platforms, eels and stars
\* whenever it is run, whatever was generated before.
C1_Deterministic ==
  \A a \in memo : \A b \in memo :
    SameStage(a, b) =>
      /\ a.platforms = b.platforms
      /\ a.eels = b.eels
      /\ a.stars = b.stars

\* C1 witness: a stage with floating platforms, an eel and a star, generated
\* with its seed for the second time, in the last round.
C1_Witness ==
  /\ round = MaxRounds
  /\ \E a \in memo :
       /\ a.again
       /\ Len(a.platforms) = 3
       /\ Len(a.eels) = 1
       /\ Len(a.stars) = 1

====
